---- MODULE Spec2Model ----
(***************************************************************************)
(* The Hangman rules engine of hangman_single.py as a state machine.       *)
(*                                                                         *)
(* A Python str is modelled as a sequence of one-character strings, so     *)
(* that upper(), strip() and the A-Z filter are computed character by      *)
(* character.  A HangmanState snapshot is a record [answer, lives,         *)
(* guessed]; the engine's _state is either such a record or None.          *)
(* Besides the engine's own fields the model records the last call (op,    *)
(* its argument, the snapshot before it, what it returned or raised).      *)
(***************************************************************************)
EXTENDS Integers, Sequences, FiniteSets, TLC

VARIABLES
    _words,          \* HangmanEngine._words: the cleaned word pool
    _phrases,        \* HangmanEngine._phrases: the cleaned phrase pool
    _default_lives,  \* HangmanEngine._default_lives
    _state,          \* HangmanEngine._state: None or a HangmanState
    op,              \* last call: "new", "start", "state", "guess", "timeout"
    difficulty,      \* argument of the last start() call ("" otherwise)
    letter,          \* argument of the last guess() call (<<>> otherwise)
    raw,             \* pool entry drawn by the last successful start()
    pre,             \* _state when the last call was entered
    ret,             \* value the last call returned (None if it raised)
    err,             \* exception the last call raised ("" if it returned)
    timeouts,        \* timeout() calls that took a life since the last start()
    held,            \* content of a snapshot object a caller kept (None if none)
    alias,           \* what the kept object shares with the engine's current
                     \* one: "object" (it is that object), "set" (only the
                     \* guessed set object), "none"
    tcl_threaded,    \* run_gui: the Tcl build serves other threads' Tk calls
                     \* in the main loop (TRUE) or lets them run at once
    ui_pc,           \* run_gui: where the UI (main) thread is
    ui_next,         \* the state the UI thread's engine call is about to
                     \* assign to _state (None: it assigns nothing)
    ui_restart,      \* the UI thread's callback will start a fresh timer
    ui_thr,          \* stop_timer's local thr in the UI thread (0 is None)
    tpc,             \* per timer thread: where it is in timer_loop
    t_next,          \* per timer thread: the state its engine.timeout() call
                     \* is about to assign to _state (None: nothing)
    t_restart,       \* per timer thread: it will start a fresh timer
    t_thr,           \* per timer thread: stop_timer's local thr (0 is None)
    stop_event,      \* per timer thread: its threading.Event is set
    timer_seconds,   \* timer_seconds["value"]
    timer_thread,    \* timer_thread["value"] (0 is None)
    timer_stop,      \* timer_stop["event"], named by its thread (0 is None)
    fired,           \* engine.timeout() calls since timer_seconds was last
                     \* set to the full countdown
    cli_pc,          \* run_cli: where the main thread is
    cli_thr,         \* timed_input's t_thr, the reader of this prompt (0: none)
    remaining,       \* timed_input's remaining
    rpc,             \* per reader thread: "unborn", "input" (in input()), "done"
    queues,          \* per reader thread: what it put on its prompt's queue q
    stdin_owner,     \* the reader thread whose input() reads stdin (0: none)
    entered,         \* the lines the user entered during this prompt
    cli_ret          \* what timed_input returned last: <<>> is None, <<s>> is
                     \* the string s

\* the variables of the engine and of its callers' records
engine == <<_words, _phrases, _default_lives, _state,
            op, difficulty, letter, raw, pre, ret, err, timeouts,
            held, alias>>

\* the variables of run_gui
gui == <<tcl_threaded, ui_pc, ui_next, ui_restart, ui_thr,
         tpc, t_next, t_restart, t_thr, stop_event,
         timer_seconds, timer_thread, timer_stop, fired>>

\* the variables of run_cli
cli == <<cli_pc, cli_thr, remaining, rpc, queues, stdin_owner, entered,
         cli_ret>>

vars == <<_words, _phrases, _default_lives, _state,
          op, difficulty, letter, raw, pre, ret, err, timeouts,
          held, alias,
          tcl_threaded, ui_pc, ui_next, ui_restart, ui_thr,
          tpc, t_next, t_restart, t_thr, stop_event,
          timer_seconds, timer_thread, timer_stop, fired,
          cli_pc, cli_thr, remaining, rpc, queues, stdin_owner, entered,
          cli_ret>>

-----------------------------------------------------------------------------
(* Bounds of the model *)

\* largest default life count an engine is constructed with
MaxLives == 3

\* timer threads run_gui creates in one run
MaxTimers == 3

\* ticks of the countdown (15 in run_gui)
MaxCountdown == 1

\* default life count of run_gui's engine (6 in run_gui)
GuiLives == 2

\* reader threads run_cli creates in one run (one for each prompt)
MaxPrompts == 3

\* seconds timed_input waits for a line (15 in run_cli)
MaxWait == 2

-----------------------------------------------------------------------------
(* Python strings *)

\* string.ascii_uppercase
ascii_uppercase ==
    << "A", "B", "C", "D", "E", "F", "G", "H", "I", "J", "K", "L", "M",
       "N", "O", "P", "Q", "R", "S", "T", "U", "V", "W", "X", "Y", "Z" >>

\* the characters str.upper() maps onto ascii_uppercase, position by position
ascii_lowercase ==
    << "a", "b", "c", "d", "e", "f", "g", "h", "i", "j", "k", "l", "m",
       "n", "o", "p", "q", "r", "s", "t", "u", "v", "w", "x", "y", "z" >>

\* the characters str.strip() removes from both ends
Whitespace == {" ", "\t", "\n"}

MASK_CHAR == "_"

\* ch in s, for a character ch and a string s
In(ch, s) == \E i \in 1..Len(s) : s[i] = ch

\* str.upper() on one character
upper_char(ch) ==
    IF In(ch, ascii_lowercase)
    THEN ascii_uppercase[CHOOSE i \in 1..Len(ascii_lowercase) :
                             ascii_lowercase[i] = ch]
    ELSE ch

\* str.upper()
upper(s) == [i \in 1..Len(s) |-> upper_char(s[i])]

\* str.strip()
strip(s) ==
    LET keep == {i \in 1..Len(s) : s[i] \notin Whitespace}
        first == CHOOSE i \in keep : \A j \in keep : i <= j
        last == CHOOSE i \in keep : \A j \in keep : j <= i
    IN  IF keep = {} THEN <<>> ELSE SubSeq(s, first, last)

\* " ".join(parts), for a sequence of one-character strings
join_space(parts) ==
    IF Len(parts) = 0 THEN <<>>
    ELSE [j \in 1..(2 * Len(parts) - 1) |->
             IF j % 2 = 1 THEN parts[(j + 1) \div 2] ELSE " "]

\* _normalize_answer: uppercase, keep only A-Z and spaces, strip
KeptInAnswer(ch) == In(ch, ascii_uppercase \o <<" ">>)
_normalize_answer(text) == strip(SelectSeq(upper(text), KeptInAnswer))

-----------------------------------------------------------------------------
(* HangmanState *)

None == [none |-> TRUE]

HangmanState(answer, lives, guessed) ==
    [answer |-> answer, lives |-> lives, guessed |-> guessed]

\* masked with the positions joined by "" instead of " "
masked_unseparated(st) ==
    [i \in 1..Len(st.answer) |->
        IF st.answer[i] = " " \/ st.answer[i] \in st.guessed
        THEN st.answer[i] ELSE MASK_CHAR]

\* masked without the exemption of spaces
masked_hiding_spaces(st) ==
    join_space([i \in 1..Len(st.answer) |->
                   IF st.answer[i] \in st.guessed
                   THEN st.answer[i] ELSE MASK_CHAR])

\* HangmanState.masked
masked(st) ==
    join_space([i \in 1..Len(st.answer) |->
                   IF st.answer[i] = " " \/ st.answer[i] \in st.guessed
                   THEN st.answer[i] ELSE MASK_CHAR])

\* is_won without the exemption of spaces
is_won_counting_spaces(st) ==
    \A i \in 1..Len(st.answer) : st.answer[i] \in st.guessed

\* HangmanState.is_won
is_won(st) ==
    \A i \in 1..Len(st.answer) :
        st.answer[i] = " " \/ st.answer[i] \in st.guessed

\* is_lost with the test for zero lives off by one (lives < 0)
is_lost_below_zero(st) == st.lives < 0 /\ ~is_won(st)

\* is_lost without the "not already won" conjunct
is_lost_ignoring_won(st) == st.lives <= 0

\* HangmanState.is_lost
is_lost(st) == st.lives <= 0 /\ ~is_won(st)

\* the guard with the lost half forgotten
round_over_only_won(st) == is_won(st)

\* self._state.is_won or self._state.is_lost: the guard of guess() and timeout()
round_over(st) == is_won(st) \/ is_lost(st)

-----------------------------------------------------------------------------
(* HangmanEngine.__init__ *)

\* [w.strip() for w in words if w and w.strip()]
clean_pool(pool) ==
    LET nonblank(w) == Len(w) > 0 /\ Len(strip(w)) > 0
        kept == SelectSeq(pool, nonblank)
    IN  [i \in 1..Len(kept) |-> strip(kept[i])]

\* the word collections engines are constructed with
WordPools ==
    { << <<"A", "B", "A">> >>,
      << <<"A", "B", "C">> >>,
      << <<"A">>, <<" ", "a", "b", "\t">>, <<" ", " ">> >>,
      << <<"b", "1", "a">>, <<"1">> >>,
      << <<" ">>, <<>> >> }

\* the phrase collections engines are constructed with
PhrasePools ==
    { << <<"X", " ", "Y">> >>,
      << <<"b", " ", "c">>, <<"1", " ", "a", "-", "b", " ", "!">> >>,
      << >> }

\* the default life counts engines are constructed with (unchecked by __init__)
LivesChoices == (0 - 1) .. MaxLives

\* __init__ raises ValueError when a cleaned pool is empty
init_accepts(words, phrases) ==
    Len(clean_pool(words)) > 0 /\ Len(clean_pool(phrases)) > 0

\* run_gui before start_game(): no timer thread, nothing stored
Threads == 1 .. MaxTimers

no_gui ==
    /\ ui_pc = "mainloop"
    /\ ui_next = None
    /\ ui_restart = FALSE
    /\ ui_thr = 0
    /\ tpc = [t \in Threads |-> "unborn"]
    /\ t_next = [t \in Threads |-> None]
    /\ t_restart = [t \in Threads |-> FALSE]
    /\ t_thr = [t \in Threads |-> 0]
    /\ stop_event = [t \in Threads |-> FALSE]
    /\ timer_seconds = MaxCountdown
    /\ timer_thread = 0
    /\ timer_stop = 0
    /\ fired = 0

\* run_cli is not running: no reader thread, nothing entered
Readers == 1 .. MaxPrompts

no_cli ==
    /\ cli_thr = 0
    /\ remaining = 0
    /\ rpc = [k \in Readers |-> "unborn"]
    /\ queues = [k \in Readers |-> <<>>]
    /\ stdin_owner = 0
    /\ entered = <<>>
    /\ cli_ret = <<>>

Init ==
    \E words \in WordPools, phrases \in PhrasePools, lives \in LivesChoices :
        /\ init_accepts(words, phrases)
        /\ _words = clean_pool(words)
        /\ _phrases = clean_pool(phrases)
        /\ _default_lives = lives
        /\ _state = None
        /\ op = "new"
        /\ difficulty = ""
        /\ letter = <<>>
        /\ raw = <<>>
        /\ pre = None
        /\ ret = None
        /\ err = ""
        /\ timeouts = 0
        /\ held = None
        /\ alias = "none"
        /\ tcl_threaded = TRUE
        /\ no_gui
        /\ cli_pc = "off"
        /\ no_cli

-----------------------------------------------------------------------------
(* HangmanEngine.start *)

Difficulties == {"basic", "intermediate", "hard", "BASIC", ""}

\* the difficulty test made case-insensitive
valid_difficulty_any_case(d) ==
    d \in {"basic", "intermediate", "BASIC", "INTERMEDIATE"}

valid_difficulty(d) == d \in {"basic", "intermediate"}

\* the pool selection with the two pools swapped
start_pool_swapped(d) == IF d = "basic" THEN _phrases ELSE _words

\* pool = self._words if difficulty == "basic" else self._phrases
start_pool(d) == IF d = "basic" THEN _words ELSE _phrases

start(d) ==
    /\ UNCHANGED gui
    /\ UNCHANGED cli
    /\ op' = "start"
    /\ difficulty' = d
    /\ letter' = <<>>
    /\ pre' = _state
    /\ UNCHANGED <<_words, _phrases, _default_lives, held>>
    /\ IF ~valid_difficulty(d)
       THEN /\ err' = "ValueError"
            /\ ret' = None
            /\ raw' = <<>>
            /\ UNCHANGED <<_state, timeouts, alias>>
       ELSE \E i \in 1..Len(start_pool(d)) :
            /\ raw' = start_pool(d)[i]
            /\ _state' = HangmanState(_normalize_answer(start_pool(d)[i]),
                                      _default_lives, {})
            /\ ret' = _state'
            /\ err' = ""
            /\ timeouts' = 0
            /\ alias' = "none"

-----------------------------------------------------------------------------
(* HangmanEngine.state *)

\* the accessor handing out None instead of raising
state_missing_never(st) == FALSE

\* if self._state is None: raise RuntimeError("game not started")
state_missing(st) == st = None

state ==
    /\ UNCHANGED gui
    /\ UNCHANGED cli
    /\ op' = "state"
    /\ difficulty' = ""
    /\ letter' = <<>>
    /\ raw' = <<>>
    /\ pre' = _state
    /\ UNCHANGED <<_words, _phrases, _default_lives, _state, timeouts,
                   held, alias>>
    /\ IF state_missing(_state)
       THEN err' = "RuntimeError" /\ ret' = None
       ELSE err' = "" /\ ret' = _state

-----------------------------------------------------------------------------
(* HangmanEngine.guess *)

\* the strings guess() is called with
GuessInputs ==
    { <<>>, <<" ">>, <<"1">>, <<"_">>, <<"a", "b">>, <<"A", "A">>,
      <<"a", " ", "z">>,
      <<"A">>, <<"a">>, <<"\t", "b", " ">>, <<"B">>, <<"x">>,
      <<"Z">>, <<" ", "z">>, <<"y">>, <<"C">> }

\* (letter or "").strip().upper()
guess_letter(l) == upper(strip(l))

\* the validity test with the A-Z half forgotten
invalid_letter_length_only(l) == Len(l) # 1

\* len(letter) != 1 or letter not in string.ascii_uppercase
\* (a substring test: the empty string is "in" every string)
invalid_letter(l) ==
    \/ Len(l) # 1
    \/ ~ \E i \in 1..(Len(ascii_uppercase) - Len(l) + 1) :
           SubSeq(ascii_uppercase, i, i + Len(l) - 1) = l

\* the repeat test forgotten
already_guessed_never(st, l) == FALSE

\* letter in self._state.guessed
already_guessed(st, l) == l[1] \in st.guessed

\* guess() taking a life for every new letter, also one of the answer
guess_next_always_costs(st, l) ==
    HangmanState(st.answer, st.lives - 1, st.guessed \cup {l[1]})

\* the snapshot guess() stores for a new valid letter
guess_next(st, l) ==
    HangmanState(st.answer,
                 st.lives - (IF In(l[1], st.answer) THEN 0 ELSE 1),
                 st.guessed \cup {l[1]})

\* guess() reaches line 119: an undecided round and a new valid letter
guess_changes(st, l) ==
    /\ ~round_over(st)
    /\ ~invalid_letter(guess_letter(l))
    /\ ~already_guessed(st, guess_letter(l))

\* the snapshot guess(l) leaves in self._state, entered with snapshot st
guess_result(st, l) ==
    IF round_over(st) THEN st
    ELSE IF invalid_letter(guess_letter(l)) THEN st
    ELSE IF already_guessed(st, guess_letter(l)) THEN st
    ELSE guess_next(st, guess_letter(l))

\* guessed = self._state.guessed: the new snapshot gets the old set object
set_copy_shared(al) == IF al = "none" THEN "none" ELSE "set"

\* set(self._state.guessed) builds a new set object: the snapshot made with
\* it shares nothing with a holder of the old one
set_copy(al) == "none"

\* guessed.add(letter), seen through a kept snapshot that shares (al) the
\* set object written to
held_after_add(h, al, ch) ==
    IF al = "none" THEN h ELSE [h EXCEPT !.guessed = @ \cup {ch}]

guess(l) ==
    /\ UNCHANGED gui
    /\ UNCHANGED cli
    /\ op' = "guess"
    /\ difficulty' = ""
    /\ letter' = l
    /\ raw' = <<>>
    /\ pre' = _state
    /\ UNCHANGED <<_words, _phrases, _default_lives, timeouts>>
    /\ IF _state = None
       THEN /\ err' = "RuntimeError" /\ ret' = None
            /\ UNCHANGED <<_state, held, alias>>
       ELSE /\ err' = ""
            /\ _state' = guess_result(_state, l)
            /\ IF guess_changes(_state, l)
               THEN /\ alias' = set_copy(alias)
                    /\ held' = held_after_add(held, set_copy(alias),
                                              guess_letter(l)[1])
               ELSE UNCHANGED <<held, alias>>
            /\ ret' = _state'

-----------------------------------------------------------------------------
(* HangmanEngine.timeout *)

max(a, b) == IF a >= b THEN a ELSE b

\* timeout() building the snapshot without guessed= (the field's default, set())
timeout_next_drops_guessed(st) ==
    HangmanState(st.answer, max(st.lives - 1, 0), {})

\* the snapshot timeout() stores for an undecided round
timeout_next(st) ==
    HangmanState(st.answer, max(st.lives - 1, 0), st.guessed)

\* the snapshot timeout() leaves in self._state, entered with snapshot st
timeout_result(st) == IF round_over(st) THEN st ELSE timeout_next(st)

timeout ==
    /\ UNCHANGED gui
    /\ UNCHANGED cli
    /\ op' = "timeout"
    /\ difficulty' = ""
    /\ letter' = <<>>
    /\ raw' = <<>>
    /\ pre' = _state
    /\ UNCHANGED <<_words, _phrases, _default_lives, held>>
    /\ IF _state = None
       THEN /\ err' = "RuntimeError" /\ ret' = None
            /\ UNCHANGED <<_state, timeouts, alias>>
       ELSE /\ err' = ""
            /\ _state' = timeout_result(_state)
            /\ IF round_over(_state)
               THEN UNCHANGED <<timeouts, alias>>
               ELSE /\ timeouts' = timeouts + 1
                    /\ alias' = set_copy(alias)
            /\ ret' = _state'

-----------------------------------------------------------------------------

Next ==
    \/ \E d \in Difficulties : start(d)
    \/ state
    \/ \E l \in GuessInputs : guess(l)
    \/ timeout

Spec == Init /\ [][Next]_vars

-----------------------------------------------------------------------------
(* A caller that keeps snapshots *)

\* st = eng.guess(...): the caller keeps the object the last call returned,
\* which is the engine's current snapshot object
keep ==
    /\ ret # None
    /\ held' = ret
    /\ alias' = "object"
    /\ UNCHANGED <<_words, _phrases, _default_lives, _state,
                   op, difficulty, letter, raw, pre, ret, err, timeouts>>
    /\ UNCHANGED gui
    /\ UNCHANGED cli

\* the engine of the repository's tests: words ["ABA"], phrases ["X Y"]
InitSnap ==
    /\ Init
    /\ _words = << <<"A", "B", "A">> >>
    /\ _phrases = << <<"X", " ", "Y">> >>
    /\ _default_lives \in {1, 2}

NextSnap == Next \/ keep

SpecSnap == InitSnap /\ [][NextSnap]_vars

-----------------------------------------------------------------------------
(* run_gui: the UI thread and the timer threads around one engine *)

\* thr.is_alive()
is_alive(t) == tpc[t] \notin {"unborn", "dead"}

\* a Tk call made by a timer thread (timer_var.set, update_view): a threaded
\* Tcl runs it in the main loop, so it waits while the UI thread is inside a
\* callback; an unthreaded Tcl runs it at once
tk_ready == ~tcl_threaded \/ ui_pc = "mainloop"

\* the timer thread is at a Tk call that cannot run now
tk_blocked(t) == tpc[t] \in {"label", "view", "relabel"} /\ ~tk_ready

\* the timer thread waits in thr.join() for a live thread
in_join(t) ==
    /\ tpc[t] = "join"
    /\ t_thr[t] # 0 /\ t_thr[t] # t
    /\ is_alive(t_thr[t])

\* stop_timer's join, called by thread `me` (0 is the UI thread): skipped
\* for None, a dead thread and the current thread; thr.join(timeout=1.0)
\* returns when thr has ended, or after a second in which thr could not end
join_over(me, thr) ==
    IF thr = 0 \/ thr = me THEN TRUE
    ELSE ~is_alive(thr) \/ tk_blocked(thr) \/ in_join(thr)

\* ev.set() on the stored event, if there is one
set_stored_event ==
    IF timer_stop = 0 THEN stop_event
    ELSE [stop_event EXCEPT ![timer_stop] = TRUE]

\* restart_timer's new Event and Thread: the first thread not yet created
fresh(k) == tpc[k] = "unborn" /\ \A j \in 1 .. k - 1 : tpc[j] # "unborn"

\* what the entry box can hold when submit_guess reads it: nothing or one
\* letter (_entry_validator)
GuiEntries == {<<>>, <<"A">>, <<"Z">>}

\* the radio buttons
GuiDifficulties == {"basic", "intermediate"}

\* submit_guess up to the point inside engine.guess(ch) where the new state
\* has been built from the state read and is not yet assigned; the main loop
\* starts after run_gui's first start_game(), so a round has been started
submit_guess(ch) ==
    /\ UNCHANGED cli
    /\ ui_pc = "mainloop"
    /\ _state # None
    /\ ui_pc' = "guess"
    /\ ui_next' = IF guess_changes(_state, ch)
                  THEN guess_next(_state, guess_letter(ch))
                  ELSE None
    /\ ui_restart' = FALSE
    /\ UNCHANGED <<tcl_threaded, ui_thr, tpc, t_next, t_restart, t_thr,
                   stop_event, timer_seconds, timer_thread, timer_stop,
                   fired>>
    /\ UNCHANGED engine

\* start_game up to the point inside engine.start() where the new state has
\* been built and is not yet assigned
start_game(d) ==
    /\ UNCHANGED cli
    /\ ui_pc = "mainloop"
    /\ \E i \in 1 .. Len(start_pool(d)) :
         ui_next' = HangmanState(_normalize_answer(start_pool(d)[i]),
                                 _default_lives, {})
    /\ ui_pc' = "start"
    /\ ui_restart' = TRUE
    /\ UNCHANGED <<tcl_threaded, ui_thr, tpc, t_next, t_restart, t_thr,
                   stop_event, timer_seconds, timer_thread, timer_stop,
                   fired>>
    /\ UNCHANGED engine

\* the rest of engine.guess() / engine.start() in the UI thread: the
\* assignment to self._state (none on the paths that return self._state)
ui_engine_return ==
    /\ UNCHANGED cli
    /\ ui_pc \in {"guess", "start"}
    /\ _state' = IF ui_next = None THEN _state ELSE ui_next
    /\ ui_next' = None
    /\ ui_pc' = "view"
    /\ UNCHANGED <<tcl_threaded, ui_restart, ui_thr, tpc, t_next, t_restart,
                   t_thr, stop_event, timer_seconds, timer_thread,
                   timer_stop, fired>>
    /\ UNCHANGED <<_words, _phrases, _default_lives,
                   op, difficulty, letter, raw, pre, ret, err, timeouts,
                   held, alias>>

\* update_view and the decision to restart in the UI thread, then the first
\* half of stop_timer: read the stored event and thread, set the event
ui_view ==
    /\ UNCHANGED cli
    /\ ui_pc = "view"
    /\ ui_restart' = (ui_restart \/ ~round_over(_state))
    /\ ui_thr' = timer_thread
    /\ stop_event' = set_stored_event
    /\ ui_pc' = "join"
    /\ UNCHANGED <<tcl_threaded, ui_next, tpc, t_next, t_restart, t_thr,
                   timer_seconds, timer_thread, timer_stop, fired>>
    /\ UNCHANGED engine

\* the second half of stop_timer in the UI thread when the round is over:
\* the join, then both stored references are cleared
ui_stop_timer ==
    /\ UNCHANGED cli
    /\ ui_pc = "join"
    /\ ~ui_restart
    /\ join_over(0, ui_thr)
    /\ timer_thread' = 0
    /\ timer_stop' = 0
    /\ ui_thr' = 0
    /\ ui_pc' = "mainloop"
    /\ UNCHANGED <<tcl_threaded, ui_next, ui_restart, tpc, t_next, t_restart,
                   t_thr, stop_event, timer_seconds, fired>>
    /\ UNCHANGED engine

\* the rest of restart_timer in the UI thread: the join, both stored
\* references cleared, the countdown reset, a new event and a new thread
\* stored and the thread started
ui_restart_timer ==
    /\ UNCHANGED cli
    /\ ui_pc = "join"
    /\ ui_restart
    /\ join_over(0, ui_thr)
    /\ \E k \in Threads :
         /\ fresh(k)
         /\ tpc' = [tpc EXCEPT ![k] = "loop"]
         /\ timer_thread' = k
         /\ timer_stop' = k
    /\ timer_seconds' = MaxCountdown
    /\ fired' = 0
    /\ ui_thr' = 0
    /\ ui_restart' = FALSE
    /\ ui_pc' = "mainloop"
    /\ UNCHANGED <<tcl_threaded, ui_next, t_next, t_restart, t_thr,
                   stop_event>>
    /\ UNCHANGED engine

\* timer_loop: the while condition and, when it fails, the test before
\* engine.timeout()
timer_loop(t) ==
    /\ UNCHANGED cli
    /\ tpc[t] = "loop"
    /\ tpc' = [tpc EXCEPT ![t] =
                 IF ~stop_event[t] /\ timer_seconds > 0 THEN "sleep"
                 ELSE IF ~stop_event[t] /\ timer_seconds <= 0 THEN "fire"
                 ELSE "dead"]
    /\ UNCHANGED <<tcl_threaded, ui_pc, ui_next, ui_restart, ui_thr,
                   t_next, t_restart, t_thr, stop_event,
                   timer_seconds, timer_thread, timer_stop, fired>>
    /\ UNCHANGED engine

\* timer_loop: the sleep is over; return if stopped, else one second less
timer_tick(t) ==
    /\ UNCHANGED cli
    /\ tpc[t] = "sleep"
    /\ IF stop_event[t]
       THEN /\ tpc' = [tpc EXCEPT ![t] = "dead"]
            /\ UNCHANGED timer_seconds
       ELSE /\ tpc' = [tpc EXCEPT ![t] = "label"]
            /\ timer_seconds' = timer_seconds - 1
    /\ UNCHANGED <<tcl_threaded, ui_pc, ui_next, ui_restart, ui_thr,
                   t_next, t_restart, t_thr, stop_event,
                   timer_thread, timer_stop, fired>>
    /\ UNCHANGED engine

\* timer_loop: timer_var.set(...) after the decrement
timer_label(t) ==
    /\ UNCHANGED cli
    /\ tpc[t] = "label"
    /\ tk_ready
    /\ tpc' = [tpc EXCEPT ![t] = "loop"]
    /\ UNCHANGED <<tcl_threaded, ui_pc, ui_next, ui_restart, ui_thr,
                   t_next, t_restart, t_thr, stop_event,
                   timer_seconds, timer_thread, timer_stop, fired>>
    /\ UNCHANGED engine

\* timer_loop: engine.timeout() up to the point where the new state has been
\* built from the state read and is not yet assigned
timer_timeout(t) ==
    /\ UNCHANGED cli
    /\ tpc[t] = "fire"
    /\ t_next' = [t_next EXCEPT ![t] =
                    IF round_over(_state) THEN None
                    ELSE timeout_next(_state)]
    /\ fired' = fired + 1
    /\ tpc' = [tpc EXCEPT ![t] = "timeout"]
    /\ UNCHANGED <<tcl_threaded, ui_pc, ui_next, ui_restart, ui_thr,
                   t_restart, t_thr, stop_event,
                   timer_seconds, timer_thread, timer_stop>>
    /\ UNCHANGED engine

\* the rest of engine.timeout() in the timer thread: the assignment to
\* self._state (none when the round was over)
timer_timeout_return(t) ==
    /\ UNCHANGED cli
    /\ tpc[t] = "timeout"
    /\ _state' = IF t_next[t] = None THEN _state ELSE t_next[t]
    /\ t_next' = [t_next EXCEPT ![t] = None]
    /\ tpc' = [tpc EXCEPT ![t] = "view"]
    /\ UNCHANGED <<tcl_threaded, ui_pc, ui_next, ui_restart, ui_thr,
                   t_restart, t_thr, stop_event,
                   timer_seconds, timer_thread, timer_stop, fired>>
    /\ UNCHANGED <<_words, _phrases, _default_lives,
                   op, difficulty, letter, raw, pre, ret, err, timeouts,
                   held, alias>>

\* update_view and the decision to restart in the timer thread, then the
\* first half of stop_timer
timer_view(t) ==
    /\ UNCHANGED cli
    /\ tpc[t] = "view"
    /\ tk_ready
    /\ t_restart' = [t_restart EXCEPT ![t] = ~round_over(_state)]
    /\ t_thr' = [t_thr EXCEPT ![t] = timer_thread]
    /\ stop_event' = set_stored_event
    /\ tpc' = [tpc EXCEPT ![t] = "join"]
    /\ UNCHANGED <<tcl_threaded, ui_pc, ui_next, ui_restart, ui_thr,
                   t_next, timer_seconds, timer_thread, timer_stop, fired>>
    /\ UNCHANGED engine

\* the second half of stop_timer in the timer thread; when the round goes
\* on, restart_timer resets the countdown
timer_stop_timer(t) ==
    /\ UNCHANGED cli
    /\ tpc[t] = "join"
    /\ join_over(t, t_thr[t])
    /\ timer_thread' = 0
    /\ timer_stop' = 0
    /\ t_thr' = [t_thr EXCEPT ![t] = 0]
    /\ IF t_restart[t]
       THEN /\ timer_seconds' = MaxCountdown
            /\ fired' = 0
            /\ tpc' = [tpc EXCEPT ![t] = "relabel"]
       ELSE /\ tpc' = [tpc EXCEPT ![t] = "dead"]
            /\ UNCHANGED <<timer_seconds, fired>>
    /\ UNCHANGED <<tcl_threaded, ui_pc, ui_next, ui_restart, ui_thr,
                   t_next, t_restart, stop_event>>
    /\ UNCHANGED engine

\* the rest of restart_timer in the timer thread: timer_var.set(...), a new
\* event and a new thread stored and the thread started; timer_loop returns
timer_restart_timer(t) ==
    /\ UNCHANGED cli
    /\ tpc[t] = "relabel"
    /\ tk_ready
    /\ \E k \in Threads :
         /\ fresh(k)
         /\ tpc' = [tpc EXCEPT ![k] = "loop", ![t] = "dead"]
         /\ timer_thread' = k
         /\ timer_stop' = k
    /\ t_restart' = [t_restart EXCEPT ![t] = FALSE]
    /\ UNCHANGED <<tcl_threaded, ui_pc, ui_next, ui_restart, ui_thr,
                   t_next, t_thr, stop_event, timer_seconds, fired>>
    /\ UNCHANGED engine

\* run_gui's engine, HangmanEngine(WORDS, PHRASES, lives=6), with one word
\* and one phrase and fewer lives; either build of Tcl
InitGui ==
    /\ _words = << <<"A", "B", "C">> >>
    /\ _phrases = << <<"X", " ", "Y">> >>
    /\ _default_lives = GuiLives
    /\ _state = None
    /\ op = "new"
    /\ difficulty = ""
    /\ letter = <<>>
    /\ raw = <<>>
    /\ pre = None
    /\ ret = None
    /\ err = ""
    /\ timeouts = 0
    /\ held = None
    /\ alias = "none"
    /\ tcl_threaded \in BOOLEAN
    /\ no_gui
    /\ cli_pc = "off"
    /\ no_cli

NextGui ==
    \/ \E ch \in GuiEntries : submit_guess(ch)
    \/ \E d \in GuiDifficulties : start_game(d)
    \/ ui_engine_return
    \/ ui_view
    \/ ui_stop_timer
    \/ ui_restart_timer
    \/ \E t \in Threads :
         \/ timer_loop(t)
         \/ timer_tick(t)
         \/ timer_label(t)
         \/ timer_timeout(t)
         \/ timer_timeout_return(t)
         \/ timer_view(t)
         \/ timer_stop_timer(t)
         \/ timer_restart_timer(t)

SpecGui == InitGui /\ [][NextGui]_vars

-----------------------------------------------------------------------------
(* run_cli: the main thread, the reader threads of timed_input and the user *)

\* what the user may answer to the difficulty prompt, stripped and lowered
CliDifficulties == {"basic", "intermediate", "", "hard"}

\* run_cli's choice: "basic" for an empty or unknown answer
cli_difficulty(text) ==
    IF text \in {"basic", "intermediate"} THEN text ELSE "basic"

\* the lines the user may enter at a letter prompt
CliLines == {<<"A">>, <<" ", "z">>, <<>>}

\* str.isalpha() of one character
isalpha(ch) == In(ch, ascii_uppercase \o ascii_lowercase)

\* t_thr.is_alive(): the reader has not returned from input()
reader_alive(k) == rpc[k] = "input"

\* the readers waiting for stdin behind the one that reads it
waiting_readers == {k \in Readers : reader_alive(k) /\ k # stdin_owner}

\* the first reader thread not yet created
fresh_reader(k) == rpc[k] = "unborn" /\ \A j \in 1 .. k - 1 : rpc[j] # "unborn"

\* what timed_input returns after its loop: None while the reader of this
\* prompt is alive, else the stripped line of its queue
timed_input_result ==
    IF reader_alive(cli_thr) THEN <<>>
    ELSE << strip(queues[cli_thr][1]) >>

\* run_cli up to its loop: the difficulty is read and the round started
cli_start(text) ==
    /\ cli_pc = "begin"
    /\ \E i \in 1 .. Len(start_pool(cli_difficulty(text))) :
         _state' = HangmanState(
                       _normalize_answer(start_pool(cli_difficulty(text))[i]),
                       _default_lives, {})
    /\ cli_pc' = "loop"
    /\ UNCHANGED <<cli_thr, remaining, rpc, queues, stdin_owner, entered,
                   cli_ret>>
    /\ UNCHANGED <<_words, _phrases, _default_lives,
                   op, difficulty, letter, raw, pre, ret, err, timeouts,
                   held, alias>>
    /\ UNCHANGED gui

\* run_cli's loop: the round is won or lost, break
cli_exit ==
    /\ cli_pc = "loop"
    /\ round_over(_state)
    /\ cli_pc' = "exit"
    /\ UNCHANGED <<cli_thr, remaining, rpc, queues, stdin_owner, entered,
                   cli_ret>>
    /\ UNCHANGED engine
    /\ UNCHANGED gui

\* run_cli's loop calls timed_input: a new queue and a new reader thread,
\* which calls input(); it reads stdin unless an earlier reader still does
cli_prompt ==
    /\ cli_pc = "loop"
    /\ ~round_over(_state)
    /\ \E k \in Readers :
         /\ fresh_reader(k)
         /\ rpc' = [rpc EXCEPT ![k] = "input"]
         /\ cli_thr' = k
         /\ stdin_owner' = IF stdin_owner = 0 THEN k ELSE stdin_owner
    /\ remaining' = MaxWait
    /\ entered' = <<>>
    /\ cli_pc' = "wait"
    /\ UNCHANGED <<queues, cli_ret>>
    /\ UNCHANGED engine
    /\ UNCHANGED gui

\* timed_input's while loop: one more second, or the loop ends
cli_wait ==
    /\ cli_pc = "wait"
    /\ IF remaining > 0 /\ reader_alive(cli_thr)
       THEN /\ remaining' = remaining - 1
            /\ UNCHANGED cli_pc
       ELSE /\ cli_pc' = "after"
            /\ UNCHANGED remaining
    /\ UNCHANGED <<cli_thr, rpc, queues, stdin_owner, entered, cli_ret>>
    /\ UNCHANGED engine
    /\ UNCHANGED gui

\* timed_input returns
cli_return ==
    /\ cli_pc = "after"
    /\ cli_ret' = timed_input_result
    /\ cli_pc' = "apply"
    /\ UNCHANGED <<cli_thr, remaining, rpc, queues, stdin_owner, entered>>
    /\ UNCHANGED engine
    /\ UNCHANGED gui

\* what run_cli does with the value timed_input returned
cli_apply_result(st, r) ==
    IF r = <<>> THEN timeout_result(st)
    ELSE IF strip(r[1]) = <<>> THEN st
    ELSE IF ~isalpha(strip(r[1])[1]) THEN st
    ELSE guess_result(st, << strip(r[1])[1] >>)

cli_apply ==
    /\ cli_pc = "apply"
    /\ _state' = cli_apply_result(_state, cli_ret)
    /\ cli_pc' = "loop"
    /\ UNCHANGED <<cli_thr, remaining, rpc, queues, stdin_owner, entered,
                   cli_ret>>
    /\ UNCHANGED <<_words, _phrases, _default_lives,
                   op, difficulty, letter, raw, pre, ret, err, timeouts,
                   held, alias>>
    /\ UNCHANGED gui

\* the user enters a line while the prompt still has time left: the input()
\* call that reads stdin returns it, its reader puts it on its own queue and
\* ends, and one of the waiting readers reads stdin next
enter_line(l) ==
    /\ cli_pc = "wait"
    /\ remaining > 0
    /\ entered = <<>>
    /\ stdin_owner # 0
    /\ entered' = <<l>>
    /\ queues' = [queues EXCEPT ![stdin_owner] = <<l>>]
    /\ rpc' = [rpc EXCEPT ![stdin_owner] = "done"]
    /\ stdin_owner' \in (IF waiting_readers = {} THEN {0} ELSE waiting_readers)
    /\ UNCHANGED <<cli_pc, cli_thr, remaining, cli_ret>>
    /\ UNCHANGED engine
    /\ UNCHANGED gui

\* run_cli's engine, HangmanEngine(WORDS, PHRASES, lives=6), with one word
\* and one phrase and fewer lives
InitCli ==
    /\ _words = << <<"A", "B", "C">> >>
    /\ _phrases = << <<"X", " ", "Y">> >>
    /\ _default_lives = GuiLives
    /\ _state = None
    /\ op = "new"
    /\ difficulty = ""
    /\ letter = <<>>
    /\ raw = <<>>
    /\ pre = None
    /\ ret = None
    /\ err = ""
    /\ timeouts = 0
    /\ held = None
    /\ alias = "none"
    /\ tcl_threaded = TRUE
    /\ no_gui
    /\ cli_pc = "begin"
    /\ no_cli

NextCli ==
    \/ \E text \in CliDifficulties : cli_start(text)
    \/ cli_exit
    \/ cli_prompt
    \/ cli_wait
    \/ cli_return
    \/ cli_apply
    \/ \E l \in CliLines : enter_line(l)

SpecCli == InitCli /\ [][NextCli]_vars

-----------------------------------------------------------------------------
(* Vocabulary of the properties, stated without the engine's operators *)

Started == _state # None
Entered == pre # None

\* the letters A-Z
AZ == {ascii_uppercase[k] : k \in 1..Len(ascii_uppercase)}

\* the letters of an answer still to be found
Missing(st) ==
    {st.answer[i] : i \in 1..Len(st.answer)} \ ({" "} \cup st.guessed)

\* the round of st is neither won nor lost
Undecided(st) == ~is_won(st) /\ ~is_lost(st)

\* the uppercase letters an input string stands for: one character of the
\* string is that letter in either case and every other one is whitespace
\* (empty for an invalid input, else one letter)
LetterOf(input) ==
    {ascii_uppercase[k] : k \in
        {k \in 1..Len(ascii_uppercase) :
            \E i \in 1..Len(input) :
                /\ input[i] \in {ascii_uppercase[k], ascii_lowercase[k]}
                /\ \A j \in (1..Len(input)) \ {i} : input[j] \in Whitespace}}

\* L occurs in the answer of st
Occurs(L, st) == \E i \in 1..Len(st.answer) : st.answer[i] = L

-----------------------------------------------------------------------------
(* C1 *)

\* C1: for an engine constructed with a positive default life count, in every
\* state reached by start(), guess() and timeout() calls the life count is
\* at least 0 and at most the configured default.
C1_LivesInRange ==
    (_default_lives > 0 /\ Started) =>
        (0 <= _state.lives /\ _state.lives <= _default_lives)

\* a wrong guess has just taken the last life of a round
C1_Witness ==
    /\ _default_lives > 0
    /\ op = "guess"
    /\ Entered
    /\ pre.lives = 1
    /\ Started
    /\ _state.lives = 0

-----------------------------------------------------------------------------
(* C2 *)

\* C2: once the round is won or lost, every guess() (whatever its argument)
\* and every timeout() leaves lives, guessed set, answer and masked view as
\* they were and returns that state; only a successful start() leaves a
\* won or lost state.
C2_TerminalFrozen ==
    (Entered /\ (is_won(pre) \/ is_lost(pre))) =>
        /\ op \in {"guess", "timeout"} =>
               /\ err = ""
               /\ ret = pre
               /\ _state.lives = pre.lives
               /\ _state.guessed = pre.guessed
               /\ _state.answer = pre.answer
               /\ masked(_state) = masked(pre)
        /\ _state # pre => (op = "start" /\ err = "")

\* a lost round was offered a new letter of its answer
C2_Witness ==
    /\ op = "guess"
    /\ Entered
    /\ is_lost(pre)
    /\ \E L \in LetterOf(letter) : L \notin pre.guessed /\ Occurs(L, pre)

-----------------------------------------------------------------------------
(* C3 *)

\* C3: in every reachable state won and lost are never both true, and won
\* takes precedence: a state with zero lives in which every letter of the
\* answer has been guessed is won and not lost.
C3_WonExcludesLost ==
    Started =>
        /\ ~(is_won(_state) /\ is_lost(_state))
        /\ (_state.lives = 0 /\ Missing(_state) = {}) =>
               (is_won(_state) /\ ~is_lost(_state))

\* a round with zero lives and no letter left to find
C3_Witness ==
    /\ Started
    /\ _state.lives = 0
    /\ Missing(_state) = {}

-----------------------------------------------------------------------------
(* C4 *)

\* C4: won is true exactly when every non-space character of the answer is
\* in the guessed set, and lost exactly when the life count is zero and the
\* state is not won (life counts being non-negative); so the guess that adds
\* the last missing letter makes the round won, and the guess or timeout
\* that brings lives to zero with a letter still missing makes it lost.
C4_WonLostDefined ==
    /\ Started =>
           (is_won(_state) <=> Missing(_state) = {})
    /\ (Started /\ _state.lives >= 0) =>
           (is_lost(_state) <=> (_state.lives = 0 /\ ~is_won(_state)))
    /\ (op = "guess" /\ Entered /\ Undecided(pre)) =>
           \A L \in LetterOf(letter) :
               Missing(pre) = {L} => (is_won(_state) /\ is_won(ret))
    /\ (op \in {"guess", "timeout"} /\ Entered /\ pre.lives > 0
           /\ _state.lives = 0 /\ Missing(_state) # {}) =>
           (is_lost(_state) /\ is_lost(ret))

\* a guess has just added the last missing letter of a phrase
C4_Witness ==
    /\ op = "guess"
    /\ Entered
    /\ Cardinality(Missing(pre)) = 1
    /\ Missing(pre) \subseteq LetterOf(letter)
    /\ Occurs(" ", pre)
    /\ Cardinality(pre.guessed) >= 2

-----------------------------------------------------------------------------
(* C5 *)

\* C5: in a round neither won nor lost, guess() with a valid letter (one A-Z
\* character after trimming and upper-casing, in either case) not guessed
\* before adds exactly that uppercase letter to the guessed set, takes one
\* life if the letter does not occur in the answer and none if it does,
\* and leaves the answer unchanged.
C5_NewLetterGuess ==
    (op = "guess" /\ Entered /\ Undecided(pre)) =>
        \A L \in LetterOf(letter) :
            L \notin pre.guessed =>
                /\ err = ""
                /\ ret = _state
                /\ _state.guessed = pre.guessed \cup {L}
                /\ _state.lives =
                       (IF Occurs(L, pre) THEN pre.lives ELSE pre.lives - 1)
                /\ _state.answer = pre.answer

\* "\tb " was guessed in an undecided round whose answer holds an unfound B
C5_Witness ==
    /\ op = "guess"
    /\ Entered
    /\ Undecided(pre)
    /\ letter = <<"\t", "b", " ">>
    /\ "B" \notin pre.guessed
    /\ Occurs("B", pre)
    /\ pre.lives < _default_lives

-----------------------------------------------------------------------------
(* C6 *)

\* C6: in a round neither won nor lost, timeout() takes one life, clamped at
\* zero, adds no letter to the guessed set and leaves the answer unchanged;
\* a round started with N lives in which nothing was guessed is lost after
\* exactly N timeouts and not before.
C6_Timeout ==
    /\ (op = "timeout" /\ Entered /\ Undecided(pre)) =>
           /\ err = ""
           /\ ret = _state
           /\ _state.lives = (IF pre.lives - 1 < 0 THEN 0 ELSE pre.lives - 1)
           /\ _state.guessed = pre.guessed
           /\ _state.answer = pre.answer
    /\ (Started /\ _default_lives >= 0
           /\ _state.guessed = {} /\ Missing(_state) # {}) =>
           /\ timeouts <= _default_lives
           /\ is_lost(_state) <=> timeouts = _default_lives

\* the last of at least two timeouts has just lost a round without guesses
C6_Witness ==
    /\ op = "timeout"
    /\ Entered
    /\ Undecided(pre)
    /\ _state.guessed = {}
    /\ _default_lives >= 2
    /\ timeouts = _default_lives
    /\ is_lost(_state)

-----------------------------------------------------------------------------
(* C7 *)

\* C7: guessing a letter that is already in the guessed set of the round is
\* a no-op, whether the letter occurs in the answer or not: it changes
\* neither lives nor the guessed set (first conjunct); so guess(l) directly
\* followed by guess(l) leaves the state the first guess(l) gave (second
\* conjunct).
C7_RepeatIsNoOp ==
    /\ [](  (op = "guess" /\ Entered /\ LetterOf(letter) \cap pre.guessed # {})
              => (err = "" /\ ret = pre /\ _state = pre))
    /\ [][ (op = "guess" /\ Started /\ op' = "guess" /\ letter' = letter)
              => (_state' = _state /\ ret' = _state) ]_vars

\* a wrong letter was guessed again in a round still undecided
C7_Witness ==
    /\ op = "guess"
    /\ Entered
    /\ Undecided(pre)
    /\ \E L \in LetterOf(letter) : L \in pre.guessed /\ ~Occurs(L, pre)

-----------------------------------------------------------------------------
(* C8 *)

\* C8: in a started round, guess() with an input that after trimming and
\* upper-casing is not exactly one character of A-Z (empty, a digit or
\* punctuation, more than one character) raises no error, returns the
\* current state and leaves lives and the guessed set unchanged.
C8_InvalidGuessIgnored ==
    (op = "guess" /\ Entered /\ LetterOf(letter) = {}) =>
        /\ err = ""
        /\ ret = pre
        /\ _state.lives = pre.lives
        /\ _state.guessed = pre.guessed
        /\ _state = pre

\* "ab" was guessed in a round still undecided
C8_Witness ==
    /\ op = "guess"
    /\ Entered
    /\ Undecided(pre)
    /\ letter = <<"a", "b">>
    /\ Missing(pre) \cap {"A", "B"} # {}

-----------------------------------------------------------------------------
(* C9 *)

\* the entries of a pool
Entries(pool) == {pool[i] : i \in 1..Len(pool)}

\* the letters of a raw entry, in order, in upper case
LettersOf(text) ==
    LET isLetter(ch) == ch \in AZ
        up == [i \in 1..Len(text) |->
                 IF \E k \in 1..Len(ascii_lowercase) : ascii_lowercase[k] = text[i]
                 THEN ascii_uppercase[CHOOSE k \in 1..Len(ascii_lowercase) :
                                          ascii_lowercase[k] = text[i]]
                 ELSE text[i]]
    IN  SelectSeq(up, isLetter)

\* ans is a normalized form of text: only A-Z and spaces, no space at either
\* end, and the letters of text in their order
NormalizedFrom(ans, text) ==
    LET isLetter(ch) == ch \in AZ
    IN  /\ \A i \in 1..Len(ans) : ans[i] \in AZ \cup {" "}
        /\ Len(ans) > 0 => (ans[1] # " " /\ ans[Len(ans)] # " ")
        /\ SelectSeq(ans, isLetter) = LettersOf(text)

\* C9: start("basic") takes its answer from the word pool and
\* start("intermediate") from the phrase pool; whatever the state before
\* (not started, mid-round, won, lost), the call succeeds and the resulting
\* state has the normalized chosen entry as answer, an empty guessed set
\* and the configured default lives, and is the engine's state from then on.
C9_StartResets ==
    (op = "start" /\ difficulty \in {"basic", "intermediate"}) =>
        /\ err = ""
        /\ difficulty = "basic" => raw \in Entries(_words)
        /\ difficulty = "intermediate" => raw \in Entries(_phrases)
        /\ Started
        /\ _state.answer = _normalize_answer(raw)
        /\ NormalizedFrom(_state.answer, raw)
        /\ _state.guessed = {}
        /\ _state.lives = _default_lives
        /\ ret = _state

\* a phrase that needs normalizing was drawn while a round was under way
C9_Witness ==
    /\ op = "start"
    /\ difficulty = "intermediate"
    /\ Entered
    /\ Undecided(pre)
    /\ pre.guessed # {}
    /\ pre.lives < _default_lives
    /\ raw = <<"1", " ", "a", "-", "b", " ", "!">>
    /\ _state.answer = <<"A", "B">>

-----------------------------------------------------------------------------
(* C10 *)

\* C10: start() with a difficulty other than "basic" and "intermediate"
\* fails with an invalid-argument error (ValueError) and changes nothing:
\* the round under way, or the not-started condition, is as before the call.
C10_BadDifficultyRejected ==
    [][ (op' = "start" /\ difficulty' \notin {"basic", "intermediate"}) =>
            /\ err' = "ValueError"
            /\ UNCHANGED <<_state, _words, _phrases, _default_lives>> ]_vars

\* start("BASIC") was called in a round under way
C10_Witness ==
    /\ op = "start"
    /\ difficulty = "BASIC"
    /\ err = "ValueError"
    /\ Entered
    /\ Undecided(pre)
    /\ pre.guessed # {}

-----------------------------------------------------------------------------
(* C11 *)

\* C11: as long as no start() has succeeded, reading the state fails with a
\* not-started error (RuntimeError) and guess() and timeout() fail the same
\* way without creating a round (first conjunct); a round exists only
\* through a successful start() and never goes away again (third), and
\* from then on the state accessor does not fail (second).
C11_NotStarted ==
    /\ []( (op \in {"state", "guess", "timeout"} /\ ~Entered) =>
              (err = "RuntimeError" /\ ret = None /\ ~Started) )
    /\ []( (op = "state" /\ Entered) => (err = "" /\ ret = _state /\ Started) )
    /\ [][ /\ Started => Started'
           /\ (~Started /\ Started') => (op' = "start" /\ err' = "") ]_vars

\* the state was read before any round was started
C11_Witness ==
    /\ op = "state"
    /\ ~Entered
    /\ err = "RuntimeError"

-----------------------------------------------------------------------------
(* C12 *)

\* position i of a masked view: its positions are separated by single spaces
Position(view, i) == view[2 * i - 1]

\* C12: the masked view has one position per character of the answer, in
\* the answer's order (the positions joined by single spaces): the position
\* shows the character itself if it is a space or a guessed letter and the
\* placeholder "_" otherwise.  So the spaces of a phrase show from the
\* first call on, a correct guess reveals every occurrence of its letter at
\* once, and no unguessed letter of the answer appears in the view.
C12_MaskedView ==
    Started =>
        LET view == masked(_state)
            n == Len(_state.answer)
        IN  /\ Len(view) = (IF n = 0 THEN 0 ELSE 2 * n - 1)
            /\ \A i \in 1..n :
                   Position(view, i) =
                       (IF _state.answer[i] = " "
                           \/ _state.answer[i] \in _state.guessed
                        THEN _state.answer[i] ELSE "_")
            /\ \A i \in 1..(n - 1) : view[2 * i] = " "
            /\ \A j \in 1..Len(view) : view[j] \notin Missing(_state)
            /\ \A L \in _state.guessed : \A i \in 1..n :
                   _state.answer[i] = L => Position(view, i) = L

\* the guess of A has just revealed both A of ABA and left its B masked
C12_Witness ==
    /\ op = "guess"
    /\ Entered
    /\ "A" \notin pre.guessed
    /\ _state.answer = <<"A", "B", "A">>
    /\ masked(_state) = <<"A", " ", "_", " ", "A">>

-----------------------------------------------------------------------------
(* C13 *)

\* the engine of scenario A, in a round with answer ABC
ScenarioA ==
    /\ _words = << <<"A", "B", "C">> >>
    /\ _phrases = << <<"X", " ", "Y">> >>
    /\ _default_lives = 3
    /\ op = "guess"
    /\ Entered
    /\ pre.answer = <<"A", "B", "C">>
    /\ pre.lives = 3

\* scenario A with the masked views as given: "A__" and "AB_"
C13_ScenarioA_AsStated ==
    ScenarioA =>
        /\ (pre.guessed = {} /\ letter = <<"A">>) =>
               (_state.lives = 3 /\ masked(_state) = <<"A", "_", "_">>)
        /\ (pre.guessed = {"A"} /\ letter = <<"B">>) =>
               masked(_state) = <<"A", "B", "_">>
        /\ (pre.guessed = {"A", "B"} /\ letter = <<"C">>) =>
               (is_won(_state) /\ ~is_lost(_state))

\* C13 (amended): with words=["ABC"], phrases=["X Y"], lives=3 and
\* start("basic") giving answer "ABC": after guess("A") lives is 3 and the
\* masked view is "A _ _" (its positions are joined by single spaces;
\* "A__" once they are removed); after guess("B") the masked view is
\* "A B _"; after guess("C") won is true and lost is false.
C13_ScenarioA ==
    ScenarioA =>
        /\ (pre.guessed = {} /\ letter = <<"A">>) =>
               (_state.lives = 3
                /\ masked(_state) = <<"A", " ", "_", " ", "_">>)
        /\ (pre.guessed = {"A"} /\ letter = <<"B">>) =>
               masked(_state) = <<"A", " ", "B", " ", "_">>
        /\ (pre.guessed = {"A", "B"} /\ letter = <<"C">>) =>
               (is_won(_state) /\ ~is_lost(_state))

\* the last guess of scenario A has been made
C13_Witness ==
    /\ ScenarioA
    /\ pre.guessed = {"A", "B"}
    /\ letter = <<"C">>
    /\ _state.lives = 3

-----------------------------------------------------------------------------
(* C14 *)

\* C14: in every reachable state that is neither won nor lost the life
\* count is at least 1, so the life-taking branch of guess() only ever
\* subtracts from a positive value and its result needs no floor.
C14_UndecidedHasLives ==
    /\ (Started /\ Undecided(_state)) => _state.lives >= 1
    /\ (op = "guess" /\ Entered /\ _state.lives # pre.lives) =>
           (pre.lives >= 1 /\ _state.lives = pre.lives - 1
            /\ _state.lives >= 0)

\* a wrong guess took a life and left the round undecided
C14_Witness ==
    /\ op = "guess"
    /\ Entered
    /\ _state.lives = pre.lives - 1
    /\ Undecided(_state)

-----------------------------------------------------------------------------
(* C16 *)

\* the guessed letters that do not occur in the answer
WrongGuesses(st) == {L \in st.guessed : ~Occurs(L, st)}

\* C16: within a round, in every reachable state, lives = default_lives
\* - (guessed letters that do not occur in the answer) - (timeout() calls
\* made while the round was undecided), and the guessed set holds only
\* letters A-Z; the zero clamp of timeout() never alters its result; and
\* until the next successful start() the answer stays the one start() set
\* and the guessed set only grows.
C16_LivesAccount ==
    /\ []( Started =>
              /\ _state.lives = _default_lives
                                  - Cardinality(WrongGuesses(_state)) - timeouts
              /\ _state.guessed \subseteq AZ )
    /\ []( (op = "timeout" /\ Entered /\ Undecided(pre)) =>
              _state.lives = pre.lives - 1 )
    /\ [][ (Started /\ ~(op' = "start" /\ err' = "")) =>
              /\ _state'.answer = _state.answer
              /\ _state.guessed \subseteq _state'.guessed ]_vars

\* a round with a right guess, a wrong guess and a timeout behind it
C16_Witness ==
    /\ Started
    /\ Undecided(_state)
    /\ timeouts >= 1
    /\ WrongGuesses(_state) # {}
    /\ _state.guessed # WrongGuesses(_state)

-----------------------------------------------------------------------------
(* C17 *)

\* the operations of the current round that changed its state
Steps == Cardinality(_state.guessed) + timeouts

\* what a round has left to spend: unguessed letters of A-Z, and lives
Measure(st) == Cardinality(AZ \ st.guessed) + st.lives

\* the different letters of an answer
LettersIn(st) == {st.answer[i] : i \in 1..Len(st.answer)} \ {" "}

\* C17: every round ends.  With positive default lives, a timeout() and a
\* guess of a letter not yet guessed always change an undecided round
\* (first conjunct); only an undecided round changes, and every change is
\* one more step and strictly lowers Measure (third), which starts at
\* 26 + default_lives and is never negative; so a round has at most
\* (letters of its answer) + default_lives <= 26 + default_lives
\* state-changing operations (second) and no infinite run of them.
C17_RoundEnds ==
    /\ []( (_default_lives > 0 /\ Entered /\ Undecided(pre)) =>
              /\ op = "timeout" => _state # pre
              /\ op = "guess" =>
                     \A L \in LetterOf(letter) :
                         L \notin pre.guessed => _state # pre )
    /\ []( (_default_lives > 0 /\ Started) =>
              /\ Measure(_state) >= 0
              /\ Steps + Measure(_state) <= Cardinality(AZ) + _default_lives
              /\ Steps <= Cardinality(LettersIn(_state)) + _default_lives
              /\ Steps <= 26 + _default_lives )
    /\ [][ (_default_lives > 0 /\ Started
             /\ op' \in {"guess", "timeout"} /\ _state' # _state) =>
              /\ Undecided(_state)
              /\ Steps' = Steps + 1
              /\ Measure(_state') < Measure(_state) ]_vars

\* a round of a three-letter answer lost with its last letter still missing
C17_Witness ==
    /\ Started
    /\ _default_lives > 0
    /\ is_lost(_state)
    /\ Cardinality(LettersIn(_state)) = 3
    /\ Steps = 2 + _default_lives

-----------------------------------------------------------------------------
(* C18 *)

\* C18: immediately after a successful start() on an engine with a
\* positive default life count, the new round is neither won nor lost, for
\* every pool the constructor accepts (also pools with entries without a
\* letter A-Z, whose normalized answer is empty).
C18_FreshRoundUndecided ==
    (op = "start" /\ err = "" /\ _default_lives > 0) => Undecided(_state)

-----------------------------------------------------------------------------
(* C15 *)

\* C15: every state-changing guess() or timeout() (and start()) replaces
\* the engine's current state by a new snapshot that shares nothing with
\* the old one, and does not mutate the old one: a snapshot a caller kept
\* from an earlier call has the same content (answer, lives, guessed set)
\* after any later guess(), timeout() and start() calls; its content is
\* replaced only when the caller keeps another return value.
C15_SnapshotsImmutable ==
    [][ /\ (op' \in {"guess", "timeout", "start"} /\ _state' # _state) =>
              alias' = "none"
        /\ (held # None /\ held' # held) =>
              (held' = ret /\ _state' = _state /\ alias' = "object") ]_vars

\* a kept snapshot of a round that has since taken a guess and a timeout
C15_Witness ==
    /\ held # None
    /\ Started
    /\ alias = "none"
    /\ held.answer = _state.answer
    /\ held.guessed # _state.guessed
    /\ held.lives > _state.lives
    /\ timeouts >= 1

-----------------------------------------------------------------------------
(* The GUI front end *)

\* the timer thread is counting down: it is in timer_loop's while loop and
\* its stop event is not set
Counting(t) == tpc[t] \in {"loop", "sleep", "label"} /\ ~stop_event[t]

\* the timer thread is inside engine.timeout()
InTimeout(t) == tpc[t] = "timeout"

\* C19: in the GUI front end the calls into the engine are serialized: at no
\* moment is a timer thread inside engine.timeout() while the UI thread is
\* inside engine.guess() or engine.start().
C19_EngineCallsSerialized ==
    \A t \in Threads : InTimeout(t) => ui_pc \notin {"guess", "start"}

\* C20: in the GUI front end restart_timer() stops the old timer before it
\* starts a fresh one: at most one timer thread is counting down, the stored
\* stop event is the event of every timer thread that is counting down, and
\* engine.timeout() is called at most once for one countdown.
C20_RestartTimerSafe ==
    /\ Cardinality({t \in Threads : Counting(t)}) <= 1
    /\ \A t \in Threads : Counting(t) => timer_stop = t
    /\ fired <= 1

-----------------------------------------------------------------------------
(* The CLI front end *)

\* timed_input has returned and run_cli has not yet used the value
Returned == cli_pc = "apply"

\* C21: in the CLI front end timed_input returns None only when no line was
\* entered while the prompt had time left, and otherwise returns the entered
\* line, stripped: the line goes to the prompt it was entered at, never to a
\* reader thread left over from an earlier prompt.
C21_LineReachesItsPrompt ==
    Returned =>
        /\ cli_ret = <<>> => entered = <<>>
        /\ entered # <<>> => cli_ret = << strip(entered[1]) >>

=============================================================================
